---- MODULE Spec2Model ----
(***************************************************************************)
(* A model of src/app.py: the DOCX -> PDF converter with Gurmukhi font     *)
(* selection.  Texts are sequences of Unicode code points.  The docx       *)
(* reader, the PDF renderer, the network and the file system are the       *)
(* environment: their outcomes (a download fails, a registration raises,   *)
(* the document cannot be opened, the build raises) are nondeterministic.  *)
(***************************************************************************)
EXTENDS Integers, Sequences, FiniteSets, TLC

VARIABLES
    FONTS_REGISTERED,   \* the module-level dict, keys gurmukhi_regular / gurmukhi_bold
    font_cache,         \* st.cache_data of download_font, per font: "miss", "None" or "path"
    rl_fonts,           \* the font names registered with pdfmetrics
    pc,                 \* position inside convert_docx_to_pdf
    doc,                \* the Document opened from the temporary file
    para_idx,           \* index (0-based) of the next paragraph of the first loop
    table_idx,          \* index (0-based) of the next table of the second loop
    story,              \* the list of flowables handed to pdf_doc.build
    temp_docx,          \* the temporary .docx copy: "unset", "exists" or "deleted"
    result,             \* what convert_docx_to_pdf returned: "pending", "bytes" or "None"
    call,               \* a direct call of one of the pure helpers: its arguments
    ret                 \* ... and what it returned

vars == <<FONTS_REGISTERED, font_cache, rl_fonts, pc, doc, para_idx, table_idx,
          story, temp_docx, result, call, ret>>

conv_vars == <<pc, doc, para_idx, table_idx, story, temp_docx, result>>
font_vars == <<FONTS_REGISTERED, font_cache, rl_fonts>>

----------------------------------------------------------------------------
(* Bounds of the model *)

MaxLen == 2        \* characters of a text handed directly to a helper
MaxParas == 2      \* paragraphs of a document
MaxRuns == 3       \* runs of a paragraph
MaxTables == 2     \* tables of a document
MaxRows == 2       \* rows of a table
MaxCols == 3       \* cells of a row

----------------------------------------------------------------------------
(* Texts *)

SPACE == 32                  \* the whitespace character str.strip() removes
TextA == <<65>>              \* "A"
TextKa == <<2581>>           \* U+0A15 GURMUKHI LETTER KA
TextBlank == <<SPACE>>

\* the code points of the directly classified texts: space, "A", U+09FF, U+0A00,
\* U+0A15, U+0A7E, U+0A7F
Chars == {32, 65, 2559, 2560, 2581, 2686, 2687}

RECURSIVE Concat(_)
Concat(ss) == IF ss = <<>> THEN <<>> ELSE Head(ss) \o Concat(Tail(ss))

SeqsUpTo(S, n) == UNION {[1..k -> S] : k \in 0..n}

\* str.strip() leaves nothing exactly when every character is whitespace
IsBlank(text) == \A i \in 1..Len(text) : text[i] = SPACE

RECURSIVE LStrip(_)
LStrip(text) ==
    IF text # <<>> /\ Head(text) = SPACE THEN LStrip(Tail(text)) ELSE text

RECURSIVE RStrip(_)
RStrip(text) ==
    IF text # <<>> /\ text[Len(text)] = SPACE
    THEN RStrip(SubSeq(text, 1, Len(text) - 1))
    ELSE text

Strip(text) == RStrip(LStrip(text))

\* decimal digits of n, as str(n) writes them
RECURSIVE Digits(_)
Digits(n) == IF n < 10 THEN <<48 + n>> ELSE Digits(n \div 10) \o <<48 + (n % 10)>>

HexDigit(d) == IF d < 10 THEN 48 + d ELSE 97 + (d - 10)

\* format(v, "x")
RECURSIVE HexDigits(_)
HexDigits(v) ==
    IF v < 16 THEN <<HexDigit(v)>> ELSE HexDigits(v \div 16) \o <<HexDigit(v % 16)>>

RECURSIVE ZeroPad(_, _)
ZeroPad(s, width) == IF Len(s) >= width THEN s ELSE ZeroPad(<<48>> \o s, width)

----------------------------------------------------------------------------
(* is_gurmukhi_text *)

GURMUKHI_LO == 2560          \* 0x0A00
GURMUKHI_STOP == 2687        \* 0x0A7F, the exclusive end of range()

\* src/app.py:93 "if not text": None and "" are both falsy
Falsy(t) == t.null \/ t.chars = <<>>

Str(chars) == [null |-> FALSE, chars |-> chars]
NoneText == [null |-> TRUE, chars |-> <<>>]

InRangeStopIncluded(c) == c >= GURMUKHI_LO /\ c <= GURMUKHI_STOP

in_gurmukhi_range(c) == c >= GURMUKHI_LO /\ c < GURMUKHI_STOP

is_gurmukhi_text(t) ==
    IF Falsy(t) THEN FALSE
    ELSE \E i \in 1..Len(t.chars) : in_gurmukhi_range(t.chars[i])

----------------------------------------------------------------------------
(* get_text_formatting *)

\* What reading one attribute of a run-like object gives: the attribute is
\* missing (hasattr is false), reading it raises something other than
\* AttributeError (hasattr lets it through), it is True, or it is None/False.
AttrVals == {"absent", "raise", "True", "None"}

\* run.font.size: missing, raising, None, a Length with .pt, or a truthy object
\* without .pt
SizeVals ==
    {[k |-> x, pt |-> 0] : x \in {"absent", "raise", "None", "nopt"}}
        \cup {[k |-> "length", pt |-> p] : p \in {10, 14}}

\* run.font.color and its .rgb: color missing, raising or None; rgb missing,
\* raising or None; rgb an integer; rgb a docx RGBColor (a tuple, which the
\* format spec 06x rejects with TypeError)
ColorVals ==
    {[k |-> x, v |-> 0] : x \in {"absent", "raise", "None", "norgb", "rgbraise",
                                  "rgbNone", "tuple"}}
        \cup {[k |-> "int", v |-> 16711680]}

DefaultColor == <<35, 48, 48, 48, 48, 48, 48>>      \* "#000000"

DefaultFormatting ==
    [bold |-> FALSE, italic |-> FALSE, underline |-> FALSE, size |-> 12,
     color |-> DefaultColor]

\* (hasattr(run, a) and run.a is True) or
\* (hasattr(run, 'font') and hasattr(run.font, a) and run.font.a is True)
FlagStep(direct, font, nested) ==
    IF direct = "raise" THEN "raise"
    ELSE IF direct = "True" THEN "True"
    ELSE IF font = "absent" THEN "False"
    ELSE IF font = "raise" THEN "raise"
    ELSE IF nested = "raise" THEN "raise"
    ELSE IF nested = "True" THEN "True"
    ELSE "False"

\* hasattr(run, 'font') and run.font.size and hasattr(run.font.size, 'pt')
SizeStep(font, size) ==
    IF font = "absent" THEN "skip"
    ELSE IF font = "raise" THEN "raise"
    ELSE IF size.k \in {"absent", "raise"} THEN "raise"
    ELSE IF size.k = "length" THEN "set"
    ELSE "skip"

\* hasattr(run, 'font') and run.font.color and hasattr(run.font.color, 'rgb')
\* and run.font.color.rgb, then f"#{rgb_val:06x}"
ColorStep(font, color) ==
    IF font = "absent" THEN "skip"
    ELSE IF font = "raise" THEN "raise"
    ELSE IF color.k \in {"absent", "raise", "rgbraise", "tuple"} THEN "raise"
    ELSE IF color.k = "int" /\ color.v # 0 THEN "set"
    ELSE "skip"

FormatColor(v) == <<35>> \o ZeroPad(HexDigits(v), 6)

\* The body of the try block: the formatting dict as it stands when the block
\* is left, and whether it was left by an exception.
ExtractResetsOnRaise(run) ==
    LET b == FlagStep(run.bold, run.font, run.fbold)
        i == FlagStep(run.italic, run.font, run.fitalic)
        u == FlagStep(run.underline, run.font, run.funderline)
        s == SizeStep(run.font, run.size)
        c == ColorStep(run.font, run.color)
    IN  IF "raise" \in {b, i, u, s, c}
        THEN [exc |-> TRUE, fmt |-> DefaultFormatting]
        ELSE [exc |-> FALSE,
              fmt |-> [bold |-> b = "True", italic |-> i = "True",
                       underline |-> u = "True",
                       size |-> IF s = "set" THEN run.size.pt ELSE 12,
                       color |-> IF c = "set" THEN FormatColor(run.color.v)
                                 ELSE DefaultColor]]

Extract(run) ==
    LET b == FlagStep(run.bold, run.font, run.fbold)
        f1 == [DefaultFormatting EXCEPT !.bold = (b = "True")]
        i == FlagStep(run.italic, run.font, run.fitalic)
        f2 == [f1 EXCEPT !.italic = (i = "True")]
        u == FlagStep(run.underline, run.font, run.funderline)
        f3 == [f2 EXCEPT !.underline = (u = "True")]
        s == SizeStep(run.font, run.size)
        f4 == IF s = "set" THEN [f3 EXCEPT !.size = run.size.pt] ELSE f3
        c == ColorStep(run.font, run.color)
        f5 == IF c = "set" THEN [f4 EXCEPT !.color = FormatColor(run.color.v)] ELSE f4
    IN  IF b = "raise" THEN [exc |-> TRUE, fmt |-> DefaultFormatting]
        ELSE IF i = "raise" THEN [exc |-> TRUE, fmt |-> f1]
        ELSE IF u = "raise" THEN [exc |-> TRUE, fmt |-> f2]
        ELSE IF s = "raise" THEN [exc |-> TRUE, fmt |-> f3]
        ELSE IF c = "raise" THEN [exc |-> TRUE, fmt |-> f4]
        ELSE [exc |-> FALSE, fmt |-> f5]

\* "except Exception: pass" and "return formatting": nothing is raised to the caller
get_text_formatting(run) == [raised |-> FALSE, fmt |-> Extract(run).fmt]

\* the step of the extraction at which the run raises, "none" if at none
RaisesAt(run) ==
    IF FlagStep(run.bold, run.font, run.fbold) = "raise" THEN "bold"
    ELSE IF FlagStep(run.italic, run.font, run.fitalic) = "raise" THEN "italic"
    ELSE IF FlagStep(run.underline, run.font, run.funderline) = "raise" THEN "underline"
    ELSE IF SizeStep(run.font, run.size) = "raise" THEN "size"
    ELSE IF ColorStep(run.font, run.color) = "raise" THEN "color"
    ELSE "none"

----------------------------------------------------------------------------
(* get_best_font *)

BestFontRegularFirst(t, is_bold, is_italic, flags) ==
    IF is_gurmukhi_text(t)
    THEN IF is_italic
         THEN IF is_bold THEN "Helvetica-BoldOblique" ELSE "Helvetica-Oblique"
         ELSE IF flags.gurmukhi_regular THEN "NotoSansGurmukhi"
         ELSE IF is_bold /\ flags.gurmukhi_bold THEN "NotoSansGurmukhi-Bold"
         ELSE IF is_bold THEN "Helvetica-Bold" ELSE "Helvetica"
    ELSE IF is_bold /\ is_italic THEN "Helvetica-BoldOblique"
         ELSE IF is_bold THEN "Helvetica-Bold"
         ELSE IF is_italic THEN "Helvetica-Oblique"
         ELSE "Helvetica"

\* flags is the FONTS_REGISTERED dict the function reads
get_best_font(t, is_bold, is_italic, flags) ==
    IF is_gurmukhi_text(t)
    THEN IF is_italic
         THEN IF is_bold THEN "Helvetica-BoldOblique" ELSE "Helvetica-Oblique"
         ELSE IF is_bold /\ flags.gurmukhi_bold THEN "NotoSansGurmukhi-Bold"
         ELSE IF flags.gurmukhi_regular THEN "NotoSansGurmukhi"
         ELSE IF is_bold THEN "Helvetica-Bold" ELSE "Helvetica"
    ELSE IF is_bold /\ is_italic THEN "Helvetica-BoldOblique"
         ELSE IF is_bold THEN "Helvetica-Bold"
         ELSE IF is_italic THEN "Helvetica-Oblique"
         ELSE "Helvetica"

----------------------------------------------------------------------------
(* hex_to_reportlab_color *)

HexValue(c) == IF c >= 97 THEN c - 97 + 10 ELSE IF c >= 65 THEN c - 65 + 10 ELSE c - 48

\* int(hex_color[a:a+2], 16), the two digits after the leading "#"
HexPair(hex, a) == 16 * HexValue(hex[a]) + HexValue(hex[a + 1])

\* the colour's channels, 0..255 (the source divides each by 255.0)
hex_to_reportlab_color(hex_color) ==
    LET h == IF hex_color # <<>> /\ Head(hex_color) = 35 THEN Tail(hex_color)
             ELSE hex_color
    IN  IF Len(h) >= 6
        THEN [r |-> HexPair(h, 1), g |-> HexPair(h, 3), b |-> HexPair(h, 5)]
        ELSE [r |-> 0, g |-> 0, b |-> 0]

----------------------------------------------------------------------------
(* The document object model read from the .docx *)

StyleNormal == <<78, 111, 114, 109, 97, 108>>                              \* "Normal"
StyleTitle == <<84, 105, 116, 108, 101>>                                   \* "Title"
StyleHeading1 == <<72, 101, 97, 100, 105, 110, 103, 32, 49>>               \* "Heading 1"
StyleHeading2 == <<72, 101, 97, 100, 105, 110, 103, 32, 50>>               \* "Heading 2"
StyleHeading3 == <<72, 101, 97, 100, 105, 110, 103, 32, 51>>               \* "Heading 3"
StyleListBullet == <<76, 105, 115, 116, 32, 66, 117, 108, 108, 101, 116>>  \* "List Bullet"
StyleListNumber == <<76, 105, 115, 116, 32, 78, 117, 109, 98, 101, 114>>   \* "List Number"
StyleListNumber2 == StyleListNumber \o <<32, 50>>                          \* "List Number 2"

WordList == <<76, 105, 115, 116>>                  \* "List"
WordBullet == <<66, 117, 108, 108, 101, 116>>      \* "Bullet"
WordNumber == <<78, 117, 109, 98, 101, 114>>       \* "Number"

\* Python's "word in s" on strings
Contains(word, s) ==
    \E i \in 0..(Len(s) - Len(word)) : SubSeq(s, i + 1, i + Len(word)) = word

\* A run as python-docx gives it: every attribute is there, run.bold and
\* run.font.bold read the same property, font.size is None or a Length,
\* font.color.rgb is None, an RGBColor tuple or (a run-like object) an integer.
DocxRun(text, b, i, u, size, color) ==
    [text |-> text,
     bold |-> IF b THEN "True" ELSE "None", fbold |-> IF b THEN "True" ELSE "None",
     italic |-> IF i THEN "True" ELSE "None", fitalic |-> IF i THEN "True" ELSE "None",
     underline |-> IF u THEN "True" ELSE "None",
     funderline |-> IF u THEN "True" ELSE "None",
     font |-> "ok", size |-> size, color |-> color]

SizeNone == [k |-> "None", pt |-> 0]
SizePt(p) == [k |-> "length", pt |-> p]
ColorNone == [k |-> "rgbNone", v |-> 0]
ColorTuple == [k |-> "tuple", v |-> 0]
ColorInt(v) == [k |-> "int", v |-> v]

\* paragraph.text: the text of the runs, then the text the paragraph carries
\* outside its runs (a hyperlink)
ParaText(p) == Concat([k \in 1..Len(p.runs) |-> p.runs[k].text]) \o p.extra

NonBlankRun(run) == ~IsBlank(run.text)

Para(style, runs, extra) == [style |-> style, runs |-> runs, extra |-> extra]

NoDoc == [paragraphs |-> <<>>, tables |-> <<>>]

----------------------------------------------------------------------------
(* convert_docx_to_pdf: the paragraph loop *)

Fmt(run) == get_text_formatting(run).fmt

Max(a, b) == IF a >= b THEN a ELSE b

base_size(style_name) ==
    IF Contains(StyleHeading1, style_name) THEN 18
    ELSE IF Contains(StyleHeading2, style_name) THEN 16
    ELSE IF Contains(StyleHeading3, style_name) THEN 14
    ELSE IF Contains(StyleTitle, style_name) THEN 20
    ELSE 12

is_list_item(style_name) == Contains(WordList, style_name)

ListNumberSameStyle(d, idx) ==
    Cardinality({j \in 1..idx : d.paragraphs[j].style = d.paragraphs[idx + 1].style})

\* sum(1 for p in doc.paragraphs[:para_idx] if 'List Number' in p.style.name)
list_number(d, idx) ==
    Cardinality({j \in 1..idx : Contains(StyleListNumber, d.paragraphs[j].style)})

list_prefix(d, idx) ==
    LET style_name == d.paragraphs[idx + 1].style
    IN  IF ~is_list_item(style_name) THEN <<>>
        ELSE IF Contains(WordBullet, style_name) THEN <<9679, 32>>
        ELSE IF Contains(WordNumber, style_name)
             THEN Digits(list_number(d, idx) + 1) \o <<46, 32>>
        ELSE <<>>

runs_with_text(p) == SelectSeq(p.runs, NonBlankRun)

SameFlagsAndSize(f, g) ==
    /\ f.bold = g.bold /\ f.italic = g.italic /\ f.underline = g.underline
    /\ f.size = g.size

SameFlags(f, g) ==
    f.bold = g.bold /\ f.italic = g.italic /\ f.underline = g.underline

\* the loop over runs_with_text[1:] that clears uniform_formatting and breaks
uniform_formatting(p) ==
    LET rs == runs_with_text(p)
    IN  \A k \in 2..Len(rs) : SameFlags(Fmt(rs[k]), Fmt(rs[1]))

Underlined(text, fmt) ==
    IF fmt.underline THEN <<60, 117, 62>> \o text \o <<60, 47, 117, 62>> ELSE text

\* Paragraph(text_content, ParagraphStyle(name, fontName=..., ...)); src is the
\* style's name, f'Para_{para_idx}' (run -1) or f'Run_{para_idx}_{run_idx}'
StyledBlock(idx, run_idx, text, font_name, fmt, style_name, space_list, space_body) ==
    [kind |-> "Paragraph",
     src |-> [loop |-> "paragraphs", idx |-> idx, run |-> run_idx],
     text |-> text,
     fontName |-> font_name,
     fontSize |-> Max(fmt.size, base_size(style_name)),
     textColor |-> hex_to_reportlab_color(fmt.color),
     spaceAfter |-> IF is_list_item(style_name) THEN space_list ELSE space_body,
     leftIndent |-> IF is_list_item(style_name) THEN 20 ELSE 0]

\* Spacer(1, height); src records the loop iteration that appended it
SpacerElement(loop, idx, height) ==
    [kind |-> "Spacer", src |-> [loop |-> loop, idx |-> idx, run |-> -1],
     height |-> height]

UniformElements(d, idx, flags) ==
    LET p == d.paragraphs[idx + 1]
        first_fmt == Fmt(runs_with_text(p)[1])
        font_name == get_best_font(Str(ParaText(p)), first_fmt.bold, first_fmt.italic,
                                   flags)
        text_content == Underlined(list_prefix(d, idx) \o ParaText(p), first_fmt)
    IN  <<StyledBlock(idx, -1, text_content, font_name, first_fmt, p.style, 3, 6)>>

MixedBlockPrefixAll(d, idx, k, flags) ==
    LET p == d.paragraphs[idx + 1]
        run == runs_with_text(p)[k]
        run_fmt == Fmt(run)
        font_name == get_best_font(Str(run.text), run_fmt.bold, run_fmt.italic, flags)
        run_text == IF is_list_item(p.style)
                    THEN list_prefix(d, idx) \o run.text
                    ELSE run.text
    IN  StyledBlock(idx, k - 1, Underlined(run_text, run_fmt), font_name, run_fmt,
                    p.style, 1, 2)

\* the block of run number k (1-based) of runs_with_text
MixedBlock(d, idx, k, flags) ==
    LET p == d.paragraphs[idx + 1]
        run == runs_with_text(p)[k]
        run_fmt == Fmt(run)
        font_name == get_best_font(Str(run.text), run_fmt.bold, run_fmt.italic, flags)
        run_text == IF is_list_item(p.style) /\ k = 1
                    THEN list_prefix(d, idx) \o run.text
                    ELSE run.text
    IN  StyledBlock(idx, k - 1, Underlined(run_text, run_fmt), font_name, run_fmt,
                    p.style, 1, 2)

MixedElements(d, idx, flags) ==
    LET p == d.paragraphs[idx + 1]
    IN  [k \in 1..Len(runs_with_text(p)) |-> MixedBlock(d, idx, k, flags)]
            \o (IF ~is_list_item(p.style)
                THEN <<SpacerElement("paragraphs", idx, 6)>>
                ELSE <<>>)

ParagraphElementsSpacerForBlank(d, idx, flags) ==
    LET p == d.paragraphs[idx + 1]
    IN  IF IsBlank(ParaText(p)) THEN <<SpacerElement("paragraphs", idx, 6)>>
        ELSE IF runs_with_text(p) = <<>> THEN <<>>
        ELSE IF uniform_formatting(p) THEN UniformElements(d, idx, flags)
        ELSE MixedElements(d, idx, flags)

\* what one iteration of "for para_idx, paragraph in enumerate(doc.paragraphs)"
\* appends to the story
ParagraphElements(d, idx, flags) ==
    LET p == d.paragraphs[idx + 1]
    IN  IF IsBlank(ParaText(p)) THEN <<>>
        ELSE IF runs_with_text(p) = <<>> THEN <<>>
        ELSE IF uniform_formatting(p) THEN UniformElements(d, idx, flags)
        ELSE MixedElements(d, idx, flags)

----------------------------------------------------------------------------
(* convert_docx_to_pdf: the table loop *)

Tagged(run) ==
    LET fmt == Fmt(run)
        t1 == IF fmt.underline THEN <<60, 117, 62>> \o run.text \o <<60, 47, 117, 62>>
              ELSE run.text
        t2 == IF fmt.italic THEN <<60, 105, 62>> \o t1 \o <<60, 47, 105, 62>> ELSE t1
    IN  IF fmt.bold THEN <<60, 98, 62>> \o t2 \o <<60, 47, 98, 62>> ELSE t2

has_formatting(para) ==
    \E k \in 1..Len(para.runs) :
        /\ NonBlankRun(para.runs[k])
        /\ LET fmt == Fmt(para.runs[k]) IN fmt.bold \/ fmt.italic \/ fmt.underline

para_content(para) ==
    LET rs == runs_with_text(para)
    IN  Concat([k \in 1..Len(rs) |-> Tagged(rs[k])])

\* cell_content before the final strip
RECURSIVE cell_content(_)
cell_content(paras) ==
    IF paras = <<>> THEN <<>>
    ELSE LET para == Head(paras)
             piece == IF IsBlank(ParaText(para)) THEN <<>>
                      ELSE IF has_formatting(para) THEN para_content(para) \o <<SPACE>>
                      ELSE ParaText(para) \o <<SPACE>>
         IN  piece \o cell_content(Tail(paras))

row_data(row) == [c \in 1..Len(row) |-> Strip(cell_content(row[c]))]

table_data(table) == [r \in 1..Len(table) |-> row_data(table[r])]

HeaderAlways(data) == Len(data) >= 1

header_styled(data) == Len(data) > 1

\* Table(table_data) with its TableStyle; src records the loop iteration
TableBlock(table, idx, flags) ==
    LET data == table_data(table)
    IN  [kind |-> "Table",
         src |-> [loop |-> "tables", idx |-> idx, run |-> -1],
         data |-> data,
         fontName |-> IF flags.gurmukhi_regular THEN "NotoSansGurmukhi" ELSE "Helvetica",
         header |-> header_styled(data),
         headerFontName |-> IF ~header_styled(data) THEN "none"
                            ELSE IF flags.gurmukhi_bold THEN "NotoSansGurmukhi-Bold"
                            ELSE "Helvetica-Bold"]

\* what one iteration of "for table in doc.tables" appends to the story
TableElements(d, idx, flags) ==
    LET table == d.tables[idx + 1]
    IN  IF table = <<>> THEN <<>>
        ELSE IF table_data(table) = <<>> THEN <<>>
        ELSE <<TableBlock(table, idx, flags), SpacerElement("tables", idx, 12)>>

----------------------------------------------------------------------------
(* download_font and register_fonts *)

FontKeys == {"gurmukhi_regular", "gurmukhi_bold"}

FontName(key) == IF key = "gurmukhi_regular" THEN "NotoSansGurmukhi"
                 ELSE "NotoSansGurmukhi-Bold"

\* What the environment does during one call of register_fonts: each download
\* (made only on a cache miss) succeeds or fails, each registerFont(TTFont(...))
\* returns or raises.
AllOutcomes ==
    [dl_regular : {"ok", "fail"}, reg_regular : {"ok", "raise"},
     dl_bold : {"ok", "fail"}, reg_bold : {"ok", "raise"}]

\* the network is up or down, the font files are sound
NetOutcomes ==
    {o \in AllOutcomes :
        o.reg_regular = "ok" /\ o.reg_bold = "ok" /\ o.dl_regular = o.dl_bold}

\* download_font under @st.cache_data: the cached return value if there is one,
\* else the path of the written font file, or None after any exception
download_font(cached, dl) ==
    IF cached # "miss" THEN cached
    ELSE IF dl = "ok" THEN "path" ELSE "None"

RegisterOneFlagFirst(st, key, dl, reg) ==
    LET path == download_font(st.cache[key], dl)
        cache1 == [st.cache EXCEPT ![key] = path]
        flags1 == [st.flags EXCEPT ![key] = TRUE]
    IN  IF st.stopped THEN st
        ELSE IF path # "path" THEN [st EXCEPT !.cache = cache1]
        ELSE IF reg = "raise"
            THEN [st EXCEPT !.cache = cache1, !.flags = flags1, !.stopped = TRUE]
        ELSE [st EXCEPT !.cache = cache1,
                        !.rl = st.rl \cup {FontName(key)},
                        !.flags = flags1]

\* "if path: registerFont(...); FONTS_REGISTERED[key] = True" for one font, on
\* the state st = [flags, cache, rl, stopped]; stopped: an exception has left
\* the try block
RegisterOne(st, key, dl, reg) ==
    LET path == download_font(st.cache[key], dl)
        cache1 == [st.cache EXCEPT ![key] = path]
    IN  IF st.stopped THEN st
        ELSE IF path # "path" THEN [st EXCEPT !.cache = cache1]
        ELSE IF reg = "raise" THEN [st EXCEPT !.cache = cache1, !.stopped = TRUE]
        ELSE [st EXCEPT !.cache = cache1,
                        !.rl = st.rl \cup {FontName(key)},
                        !.flags = [st.flags EXCEPT ![key] = TRUE]]

RegisterFontsPropagates(flags, cache, rl, o) ==
    LET st0 == [flags |-> flags, cache |-> cache, rl |-> rl, stopped |-> FALSE]
        st1 == RegisterOne(st0, "gurmukhi_regular", o.dl_regular, o.reg_regular)
        st2 == RegisterOne(st1, "gurmukhi_bold", o.dl_bold, o.reg_bold)
    IN  [flags |-> st2.flags, cache |-> st2.cache, rl |-> st2.rl,
         raised |-> st2.stopped]

\* the state after register_fonts(); raised: whether it raises to its caller
register_fonts(flags, cache, rl, o) ==
    LET st0 == [flags |-> flags, cache |-> cache, rl |-> rl, stopped |-> FALSE]
        st1 == RegisterOne(st0, "gurmukhi_regular", o.dl_regular, o.reg_regular)
        st2 == RegisterOne(st1, "gurmukhi_bold", o.dl_bold, o.reg_bold)
    IN  [flags |-> st2.flags, cache |-> st2.cache, rl |-> st2.rl, raised |-> FALSE]

----------------------------------------------------------------------------
(* The documents of the model *)

RunBlankBold == DocxRun(TextBlank, TRUE, FALSE, FALSE, SizeNone, ColorNone)
RunA == DocxRun(TextA, FALSE, FALSE, FALSE, SizeNone, ColorNone)
RunABig == DocxRun(TextA, FALSE, FALSE, FALSE, SizePt(14), ColorInt(16711680))
RunAUnder == DocxRun(TextA, FALSE, FALSE, TRUE, SizeNone, ColorTuple)
RunKa == DocxRun(TextKa, FALSE, FALSE, FALSE, SizeNone, ColorNone)
RunKaBold == DocxRun(TextKa, TRUE, FALSE, FALSE, SizeNone, ColorTuple)
RunKaItalic == DocxRun(TextKa, FALSE, TRUE, FALSE, SizePt(10), ColorNone)

Body(runs) == Para(StyleNormal, runs, <<>>)

\* a cell is the sequence of its paragraphs
CellA == <<Body(<<RunA>>)>>
CellKa == <<Body(<<RunKaBold, RunAUnder>>), Body(<<RunBlankBold>>), Body(<<RunKa>>)>>

\* the tables of at most rows x cols cells, each row of a table as wide as the others
RectTables(Cells, rows, cols) ==
    UNION {[1..r -> [1..c -> Cells]] : r \in 0..rows, c \in 1..cols}

\* the sequences of at most n elements that end with an element of Last and
\* have the element first before it
EndingIn(first, n, Last) ==
    {pre \o <<x>> : pre \in SeqsUpTo({first}, n - 1), x \in Last}

\* documents of Gurmukhi text, one of their paragraphs of mixed formatting
ParasFonts ==
    {Body(<<RunBlankBold>>), Body(<<RunA>>), Body(<<RunKaItalic>>),
     Body(<<RunKa, RunKaBold>>)}
TablesFonts == {<<<<CellA>>>>, <<<<CellKa>>, <<CellA>>>>}
DocsFonts ==
    [paragraphs : SeqsUpTo(ParasFonts, MaxParas),
     tables : SeqsUpTo(TablesFonts, MaxTables)]

\* documents whose last paragraph takes every sequence of runs
RunPool == {RunBlankBold, RunA, RunABig, RunAUnder, RunKaBold, RunKaItalic}
ParasRuns ==
    {Para(st, runs, <<>>) : st \in {StyleNormal, StyleListBullet},
                            runs \in SeqsUpTo(RunPool, MaxRuns)}
DocsRuns ==
    [paragraphs : EndingIn(Body(<<RunA>>), MaxParas, ParasRuns),
     tables : {<<<<<<CellA>>>>>>}]

\* documents whose paragraphs take every style, with and without text in and
\* outside their runs
StylePool ==
    {StyleNormal, StyleHeading1, StyleListBullet, StyleListNumber, StyleListNumber2}
ParasStyles ==
    {Para(st, runs, extra) : st \in StylePool,
                             runs \in {<<>>, <<RunBlankBold>>, <<RunA>>},
                             extra \in {<<>>, TextA}}
DocsStyles ==
    [paragraphs : SeqsUpTo(ParasStyles, MaxParas),
     tables : {<<<<<<CellA>>>>>>}]

\* documents whose last table takes every shape
DocsTables ==
    [paragraphs : {<<Body(<<RunA>>)>>},
     tables : EndingIn(<<<<CellA>>>>, MaxTables,
                       RectTables({CellA, CellKa}, MaxRows, MaxCols))]

----------------------------------------------------------------------------
(* convert_docx_to_pdf *)

\* where the function stands once para_idx paragraphs and table_idx tables are done
Position(d, pi, ti) ==
    IF pi < Len(d.paragraphs) THEN "paragraphs"
    ELSE IF ti < Len(d.tables) THEN "tables"
    ELSE "build"

NoCall == [fn |-> "none"]

\* the call begins: register_fonts()
RegisterFonts(Outcomes) ==
    /\ pc \in {"idle", "returned"}
    /\ \E o \in Outcomes :
          LET r == register_fonts(FONTS_REGISTERED, font_cache, rl_fonts, o)
          IN  /\ FONTS_REGISTERED' = r.flags
              /\ font_cache' = r.cache
              /\ rl_fonts' = r.rl
              /\ pc' = IF r.raised THEN "returned" ELSE "create_temp"
              /\ result' = IF r.raised THEN "None" ELSE "pending"
    /\ doc' = NoDoc
    /\ para_idx' = 0
    /\ table_idx' = 0
    /\ story' = <<>>
    /\ temp_docx' = "unset"
    /\ UNCHANGED <<call, ret>>

\* with tempfile.NamedTemporaryFile(delete=False, suffix='.docx') ...
CreateTemp ==
    /\ pc = "create_temp"
    /\ temp_docx' = "exists"
    /\ pc' = "open"
    /\ UNCHANGED <<font_vars, doc, para_idx, table_idx, story, result, call, ret>>

\* what the except clause of convert_docx_to_pdf leaves of the temporary file
AfterException(temp) == temp

\* doc = Document(temp_docx_path): the document, or an exception that the
\* except clause turns into "return None"
OpenDocument(Docs) ==
    /\ pc = "open"
    /\ \/ \E d \in Docs :
              /\ doc' = d
              /\ pc' = Position(d, 0, 0)
              /\ UNCHANGED <<temp_docx, result>>
       \/ /\ temp_docx' = AfterException(temp_docx)
          /\ result' = "None"
          /\ pc' = "returned"
          /\ UNCHANGED doc
    /\ UNCHANGED <<font_vars, para_idx, table_idx, story, call, ret>>

StoryPrepend(st, elements) == elements \o st

\* story.append(...) of the elements of one loop iteration
story_append(st, elements) == st \o elements

ProcessParagraph ==
    /\ pc = "paragraphs"
    /\ story' = story_append(story, ParagraphElements(doc, para_idx, FONTS_REGISTERED))
    /\ para_idx' = para_idx + 1
    /\ pc' = Position(doc, para_idx + 1, table_idx)
    /\ UNCHANGED <<font_vars, doc, table_idx, temp_docx, result, call, ret>>

ProcessTable ==
    /\ pc = "tables"
    /\ story' = story_append(story, TableElements(doc, table_idx, FONTS_REGISTERED))
    /\ table_idx' = table_idx + 1
    /\ pc' = Position(doc, para_idx, table_idx + 1)
    /\ UNCHANGED <<font_vars, doc, para_idx, temp_docx, result, call, ret>>

\* pdf_doc.build(story), then os.unlink(temp_docx_path) and the bytes; or an
\* exception of the build and "return None"
BuildPdf ==
    /\ pc = "build"
    /\ \/ /\ temp_docx' = "deleted"
          /\ result' = "bytes"
       \/ /\ temp_docx' = AfterException(temp_docx)
          /\ result' = "None"
    /\ pc' = "returned"
    /\ UNCHANGED <<font_vars, doc, para_idx, table_idx, story, call, ret>>

----------------------------------------------------------------------------
(* Specifications *)

InitProcess ==
    /\ FONTS_REGISTERED = [k \in FontKeys |-> FALSE]
    /\ font_cache = [k \in FontKeys |-> "miss"]
    /\ rl_fonts = {}
    /\ pc = "idle"
    /\ doc = NoDoc
    /\ para_idx = 0
    /\ table_idx = 0
    /\ story = <<>>
    /\ temp_docx = "unset"
    /\ result = "pending"

Init ==
    /\ InitProcess
    /\ call = NoCall
    /\ ret = NoCall

Convert(Outcomes, Docs) ==
    \/ RegisterFonts(Outcomes)
    \/ CreateTemp
    \/ OpenDocument(Docs)
    \/ ProcessParagraph
    \/ ProcessTable
    \/ BuildPdf

\* conversions one after the other in one process, every outcome of the font
\* downloads and registrations
Next == Convert(AllOutcomes, DocsFonts)
Spec == Init /\ [][Next]_vars

NextRuns == Convert(NetOutcomes, DocsRuns)
SpecRuns == Init /\ [][NextRuns]_vars

NextStyles == Convert(NetOutcomes, DocsStyles)
SpecStyles == Init /\ [][NextStyles]_vars

NextTables == Convert(NetOutcomes, DocsTables)
SpecTables == Init /\ [][NextTables]_vars

----------------------------------------------------------------------------
(* Direct calls of the helpers *)

Texts == {NoneText} \cup {Str(c) : c \in SeqsUpTo(Chars, MaxLen)}

\* run-like objects: every way the attributes can be missing, raise or be set
\* (the attributes of a missing or raising font are not looked at)
RunLikes ==
    {r \in [text : {TextA},
            bold : AttrVals, italic : AttrVals, underline : AttrVals,
            font : {"absent", "raise", "ok"},
            fbold : {"absent", "raise", "True"},
            fitalic : {"absent", "raise", "True"},
            funderline : {"absent", "raise", "True"},
            size : {[k |-> x, pt |-> 0] : x \in {"absent", "raise", "None", "nopt"}}
                       \cup {[k |-> "length", pt |-> 14]},
            color : ColorVals] :
        r.font # "ok" =>
            /\ r.fbold = "absent" /\ r.fitalic = "absent" /\ r.funderline = "absent"
            /\ r.size.k = "absent" /\ r.color.k = "absent"}

\* the states of the fonts a process can be in: a flag is set once its font
\* has been downloaded and registered
FontStates ==
    {[flags |-> f,
      cache |-> [k \in FontKeys |-> IF f[k] THEN "path" ELSE "None"],
      rl |-> {FontName(k) : k \in {x \in FontKeys : f[x]}}] : f \in [FontKeys -> BOOLEAN]}

InitIdle ==
    /\ pc = "idle"
    /\ doc = NoDoc
    /\ para_idx = 0
    /\ table_idx = 0
    /\ story = <<>>
    /\ temp_docx = "unset"
    /\ result = "pending"
    /\ ret = NoCall

InitClassify ==
    /\ InitProcess
    /\ ret = NoCall
    /\ call \in {[fn |-> "is_gurmukhi_text", text |-> t] : t \in Texts}

CallIsGurmukhiText ==
    /\ call.fn = "is_gurmukhi_text"
    /\ ret = NoCall
    /\ ret' = [fn |-> "is_gurmukhi_text", value |-> is_gurmukhi_text(call.text)]
    /\ UNCHANGED <<font_vars, conv_vars, call>>

SpecClassify == InitClassify /\ [][CallIsGurmukhiText]_vars

InitFormat ==
    /\ InitProcess
    /\ ret = NoCall
    /\ call \in {[fn |-> "get_text_formatting", run |-> r] : r \in RunLikes}

CallGetTextFormatting ==
    /\ call.fn = "get_text_formatting"
    /\ ret = NoCall
    /\ LET r == get_text_formatting(call.run)
       IN  ret' = [fn |-> "get_text_formatting", raised |-> r.raised, fmt |-> r.fmt]
    /\ UNCHANGED <<font_vars, conv_vars, call>>

SpecFormat == InitFormat /\ [][CallGetTextFormatting]_vars

InitFont ==
    /\ InitIdle
    /\ \E fs \in FontStates :
          /\ FONTS_REGISTERED = fs.flags
          /\ font_cache = fs.cache
          /\ rl_fonts = fs.rl
    /\ call \in {[fn |-> "get_best_font", text |-> t, is_bold |-> b, is_italic |-> i] :
                    t \in Texts, b \in BOOLEAN, i \in BOOLEAN}

CallGetBestFont ==
    /\ call.fn = "get_best_font"
    /\ ret = NoCall
    /\ ret' = [fn |-> "get_best_font",
               value |-> get_best_font(call.text, call.is_bold, call.is_italic,
                                       FONTS_REGISTERED)]
    /\ UNCHANGED <<font_vars, conv_vars, call>>

SpecFont == InitFont /\ [][CallGetBestFont]_vars

----------------------------------------------------------------------------
(* C5: is_gurmukhi_text *)

\* some character of the text has a code point in 0x0A00..0x0A7E
HasGurmukhiChar(t) ==
    /\ ~t.null
    /\ \E i \in 1..Len(t.chars) : t.chars[i] \in 2560..2686

\* C5: is_gurmukhi_text(text) is true exactly when some character of text has a
\* code point in 0x0A00..0x0A7E inclusive; it is false for the empty string, for
\* None and for every text whose characters all lie outside (U+0A7F, ASCII).
C5_Classification ==
    ret.fn = "is_gurmukhi_text" =>
        /\ ret.value = HasGurmukhiChar(call.text)
        /\ (call.text = NoneText \/ call.text = Str(<<>>)) => ~ret.value
        /\ call.text \in {Str(<<2687>>), Str(<<65, 32>>), Str(<<2559, 2687>>)}
               => ~ret.value

\* the last code point of the range, after a character outside it, is classified
C5_Witness ==
    /\ ret.fn = "is_gurmukhi_text"
    /\ call.text = Str(<<65, 2686>>)
    /\ ret.value

----------------------------------------------------------------------------
(* C4: get_best_font *)

\* the policy table of the font resolver; its rows leave out non-bold Gurmukhi
\* text with only the bold variant registered, which the code gives Helvetica
PolicyFont(gurmukhi, bold, italic, regular_registered, bold_registered) ==
    CASE gurmukhi /\ italic /\ bold -> "Helvetica-BoldOblique"
      [] gurmukhi /\ italic /\ ~bold -> "Helvetica-Oblique"
      [] gurmukhi /\ ~italic /\ bold /\ bold_registered -> "NotoSansGurmukhi-Bold"
      [] gurmukhi /\ ~italic /\ ~(bold /\ bold_registered) /\ regular_registered
            -> "NotoSansGurmukhi"
      [] gurmukhi /\ ~italic /\ ~regular_registered /\ ~bold_registered
            -> IF bold THEN "Helvetica-Bold" ELSE "Helvetica"
      [] gurmukhi /\ ~italic /\ ~bold /\ ~regular_registered /\ bold_registered
            -> "Helvetica"
      [] ~gurmukhi /\ bold /\ italic -> "Helvetica-BoldOblique"
      [] ~gurmukhi /\ bold /\ ~italic -> "Helvetica-Bold"
      [] ~gurmukhi /\ ~bold /\ italic -> "Helvetica-Oblique"
      [] ~gurmukhi /\ ~bold /\ ~italic -> "Helvetica"

\* C4: for every combination of (text contains Gurmukhi, bold, italic, regular
\* registered, bold registered) get_best_font returns the font of the policy table.
C4_PolicyTable ==
    ret.fn = "get_best_font" =>
        ret.value = PolicyFont(HasGurmukhiChar(call.text), call.is_bold, call.is_italic,
                               FONTS_REGISTERED.gurmukhi_regular,
                               FONTS_REGISTERED.gurmukhi_bold)

\* bold Gurmukhi text with both variants registered gets the bold variant
C4_Witness ==
    /\ ret.fn = "get_best_font"
    /\ HasGurmukhiChar(call.text)
    /\ call.is_bold /\ ~call.is_italic
    /\ FONTS_REGISTERED.gurmukhi_regular /\ FONTS_REGISTERED.gurmukhi_bold
    /\ ret.value = "NotoSansGurmukhi-Bold"

----------------------------------------------------------------------------
(* C2: get_text_formatting *)

\* the run exposes none of the attributes the extraction looks at
NoFormattingAttributes(run) ==
    /\ run.bold = "absent" /\ run.italic = "absent" /\ run.underline = "absent"
    /\ run.font = "absent"

Steps == <<"bold", "italic", "underline", "size", "color">>

StepIndex(name) == CHOOSE k \in 1..Len(Steps) : Steps[k] = name

\* the field of step k has its default
HasDefault(fmt, k) == fmt[Steps[k]] = DefaultFormatting[Steps[k]]

\* the flag that step k (bold, italic or underline) reads off the run
FlagOf(run, k) ==
    IF k = 1 THEN FlagStep(run.bold, run.font, run.fbold) = "True"
    ELSE IF k = 2 THEN FlagStep(run.italic, run.font, run.fitalic) = "True"
    ELSE FlagStep(run.underline, run.font, run.funderline) = "True"

\* C2 as stated: get_text_formatting never raises, and whenever the run exposes
\* no formatting attributes or an attribute access raises at any step, the
\* returned record is exactly the defaults.
C2_Original ==
    ret.fn = "get_text_formatting" =>
        /\ ~ret.raised
        /\ (NoFormattingAttributes(call.run) \/ RaisesAt(call.run) # "none")
               => ret.fmt = DefaultFormatting

\* C2 as amended: get_text_formatting never raises; a run without formatting
\* attributes gives exactly the defaults; when an attribute access raises at a
\* step, the field of that step and of every later step has its default, and
\* the flags set by the earlier steps are kept (so the record is exactly the
\* defaults when the bold step raises).
C2_Amended ==
    ret.fn = "get_text_formatting" =>
        /\ ~ret.raised
        /\ NoFormattingAttributes(call.run) => ret.fmt = DefaultFormatting
        /\ RaisesAt(call.run) = "bold" => ret.fmt = DefaultFormatting
        /\ RaisesAt(call.run) # "none" =>
               \A k \in 1..Len(Steps) :
                   /\ k >= StepIndex(RaisesAt(call.run)) => HasDefault(ret.fmt, k)
                   /\ (k < StepIndex(RaisesAt(call.run)) /\ k <= 3)
                          => ret.fmt[Steps[k]] = FlagOf(call.run, k)

\* a bold run whose colour is an RGBColor: the colour step raises, bold is kept
C2_Witness ==
    /\ ret.fn = "get_text_formatting"
    /\ RaisesAt(call.run) = "color"
    /\ call.run.color.k = "tuple"
    /\ call.run.bold = "True"
    /\ ret.fmt.bold
    /\ ret.fmt.color = DefaultColor

----------------------------------------------------------------------------
(* C1: the temporary copy of the upload *)

\* C1: whenever convert_docx_to_pdf returns after having created the temporary
\* .docx, that file has been deleted, whether it returns bytes or None.
C1_TempDeleted ==
    (pc = "returned" /\ temp_docx # "unset") => temp_docx = "deleted"

----------------------------------------------------------------------------
(* C3: font failures *)

LatinFallback == {"Helvetica", "Helvetica-Bold"}

\* the text and the formatting a styled block of the story was resolved from
BlockText(e) ==
    LET p == doc.paragraphs[e.src.idx + 1]
    IN  IF e.src.run = -1 THEN ParaText(p) ELSE runs_with_text(p)[e.src.run + 1].text

BlockFmt(e) ==
    LET p == doc.paragraphs[e.src.idx + 1]
    IN  IF e.src.run = -1 THEN Fmt(runs_with_text(p)[1])
        ELSE Fmt(runs_with_text(p)[e.src.run + 1])

GurmukhiNonItalic(e) ==
    /\ e.kind = "Paragraph"
    /\ HasGurmukhiChar(Str(BlockText(e)))
    /\ ~BlockFmt(e).italic

\* register_fonts did not end the conversion: None is returned only after the
\* temporary file was created
PastRegisterFonts ==
    (pc = "returned" /\ result = "None") => temp_docx # "unset"

\* the flag of the Gurmukhi variant that matches the weight of the block's text
CorrespondingFlag(e) ==
    IF BlockFmt(e).bold THEN FONTS_REGISTERED.gurmukhi_bold
    ELSE FONTS_REGISTERED.gurmukhi_regular

\* C3 as stated: a download failure or registration error never aborts a
\* conversion, the corresponding flag stays false, and Gurmukhi non-italic text
\* is then resolved to Helvetica or Helvetica-Bold, in every conversion.
C3_Original ==
    /\ PastRegisterFonts
    /\ \A k \in FontKeys : font_cache[k] = "None" => ~FONTS_REGISTERED[k]
    /\ \A j \in 1..Len(story) :
           (GurmukhiNonItalic(story[j]) /\ ~CorrespondingFlag(story[j]))
               => story[j].fontName \in LatinFallback

C3_State ==
    /\ PastRegisterFonts
    /\ \A k \in FontKeys : font_cache[k] = "None" => ~FONTS_REGISTERED[k]
    /\ \A j \in 1..Len(story) :
           /\ GurmukhiNonItalic(story[j])
           /\ ~FONTS_REGISTERED.gurmukhi_regular
           /\ BlockFmt(story[j]).bold => ~FONTS_REGISTERED.gurmukhi_bold
           => story[j].fontName \in LatinFallback

C3_Step ==
    \A k \in FontKeys :
        /\ font_cache[k] = "None" => font_cache'[k] = "None"
        /\ (~FONTS_REGISTERED[k] /\ FONTS_REGISTERED'[k]) => font_cache'[k] = "path"

\* C3 as amended: a download failure or registration error never aborts a
\* conversion (convert_docx_to_pdf continues past register_fonts); a failed
\* download is cached, so that font's flag stays false in every later
\* conversion, and a flag is only ever set for a downloaded font; Gurmukhi
\* non-italic text is resolved to Helvetica or Helvetica-Bold whenever the
\* regular variant is not registered and, for bold text, the bold variant is
\* not registered either (a variant that is registered is still used).
C3_Amended == [](C3_State) /\ [][C3_Step]_vars

\* a conversion that returned bytes after the regular download had failed,
\* with Gurmukhi non-bold text resolved to Helvetica
C3_Witness ==
    /\ pc = "returned" /\ result = "bytes"
    /\ font_cache.gurmukhi_regular = "None"
    /\ ~FONTS_REGISTERED.gurmukhi_regular
    /\ FONTS_REGISTERED.gurmukhi_bold
    /\ \E j \in 1..Len(story) :
           /\ GurmukhiNonItalic(story[j])
           /\ ~BlockFmt(story[j]).bold
           /\ story[j].fontName = "Helvetica"

----------------------------------------------------------------------------
(* The story against the document it was built from *)

\* the elements of the story that iteration i (0-based) of a loop appended
ElementsOf(loop, i) ==
    LET FromIteration(e) == e.src.loop = loop /\ e.src.idx = i
    IN  SelectSeq(story, FromIteration)

\* the paragraphs the first loop is done with
DoneParas == {i \in 0..(Len(doc.paragraphs) - 1) : i < para_idx}

\* the tables the second loop is done with
DoneTables == {t \in 0..(Len(doc.tables) - 1) : t < table_idx}

\* the (bold, italic, underline) triple of a run of the document
Triple(run) == <<run.bold = "True", run.italic = "True", run.underline = "True">>

NonBlankRuns(p) == {k \in 1..Len(p.runs) : ~IsBlank(p.runs[k].text)}

AllSameTriple(p) ==
    \A a, b \in NonBlankRuns(p) : Triple(p.runs[a]) = Triple(p.runs[b])

\* the paragraph is not skipped: its text and one of its runs are not blank
Emitting(p) == ~IsBlank(ParaText(p)) /\ NonBlankRuns(p) # {}

\* the paragraph went the uniform path: one styled block for the whole paragraph
UniformPath(i) ==
    /\ Len(ElementsOf("paragraphs", i)) = 1
    /\ ElementsOf("paragraphs", i)[1].kind = "Paragraph"
    /\ ElementsOf("paragraphs", i)[1].src.run = -1

----------------------------------------------------------------------------
(* C6: uniform or mixed *)

\* C6: a paragraph is handled by the uniform path (exactly one styled block for
\* the whole paragraph) if and only if all its non-blank runs have the same
\* (bold, italic, underline) triple; size and colour play no part.
C6_UniformIffSameTriple ==
    \A i \in DoneParas :
        LET p == doc.paragraphs[i + 1]
            blocks == {j \in 1..Len(story) :
                          /\ story[j].kind = "Paragraph"
                          /\ story[j].src.loop = "paragraphs"
                          /\ story[j].src.idx = i}
        IN  Emitting(p) =>
                /\ UniformPath(i) <=> AllSameTriple(p)
                /\ Cardinality(blocks) = 1 <=> AllSameTriple(p)

\* two runs that differ in size and colour only went the uniform path, and two
\* runs that differ in underline only went the mixed path
C6_Witness ==
    /\ pc = "build"
    /\ \E i \in DoneParas :
          /\ doc.paragraphs[i + 1].runs = <<RunA, RunABig>>
          /\ Fmt(RunA).size # Fmt(RunABig).size
          /\ Fmt(RunA).color # Fmt(RunABig).color
          /\ UniformPath(i)
          /\ i > 0

----------------------------------------------------------------------------
(* C7: skipped paragraphs *)

\* C7: a paragraph whose trimmed text is empty, or that has no run with
\* non-blank text, appends nothing to the story, whatever its style.
C7_SkippedAppendNothing ==
    /\ \A i \in DoneParas :
           ~Emitting(doc.paragraphs[i + 1]) => ElementsOf("paragraphs", i) = <<>>
    /\ (/\ pc \in {"tables", "build"}
        /\ table_idx = 0
        /\ \A i \in DoneParas : ~Emitting(doc.paragraphs[i + 1]))
           => story = <<>>

\* a whitespace-only numbered-list paragraph and a heading whose text lies
\* outside its runs, both processed with nothing in the story
C7_Witness ==
    /\ pc = "tables"
    /\ Len(doc.paragraphs) = 2
    /\ doc.paragraphs[1] = Para(StyleListNumber, <<RunBlankBold>>, <<>>)
    /\ doc.paragraphs[2] = Para(StyleHeading1, <<RunBlankBold>>, TextA)
    /\ story = <<>>

----------------------------------------------------------------------------
(* C8: the order of the story *)

\* element a of the story may stand before element b
InSourceOrder(a, b) ==
    /\ a.src.loop = "tables" => b.src.loop = "tables"
    /\ a.src.loop = b.src.loop => a.src.idx <= b.src.idx
    /\ (a.src.loop = "paragraphs" /\ b.src.loop = "paragraphs"
            /\ a.src.idx = b.src.idx /\ a.kind = "Paragraph" /\ b.kind = "Paragraph")
           => a.src.run < b.src.run

\* C8: in the story the elements of the paragraphs stand in the order of their
\* paragraphs (within a mixed paragraph in run order), the table blocks in the
\* order of their tables, and every paragraph element before every table element.
C8_SourceOrder ==
    /\ \A i, j \in 1..Len(story) : i < j => InSourceOrder(story[i], story[j])
    /\ \A j \in 1..Len(story) :
           story[j].kind = "Paragraph" /\ story[j].src.run >= 0 =>
               LET rs == runs_with_text(doc.paragraphs[story[j].src.idx + 1])
                   run == rs[story[j].src.run + 1]
                   prefix == IF story[j].src.run = 0
                             THEN list_prefix(doc, story[j].src.idx)
                             ELSE <<>>
               IN  story[j].text = Underlined(prefix \o run.text, Fmt(run))

\* a story with the blocks of a mixed paragraph after those of another
\* paragraph and two tables after them
C8_Witness ==
    /\ pc = "build"
    /\ Len(ElementsOf("paragraphs", 0)) = 1
    /\ Len(ElementsOf("paragraphs", 1)) = 3
    /\ Len(ElementsOf("tables", 0)) = 2
    /\ Len(ElementsOf("tables", 1)) = 2
    /\ Len(story) = 8

----------------------------------------------------------------------------
(* C9: tables *)

\* C9: for every table with at least one row the grid has one row per source
\* row and in each row one cell string per source cell, and the header styling
\* is applied if and only if the grid has more than one row.
C9_TableShape ==
    \A t \in DoneTables :
        LET table == doc.tables[t + 1]
            els == ElementsOf("tables", t)
        IN  Len(table) >= 1 =>
                /\ Len(els) = 2
                /\ els[1].kind = "Table"
                /\ Len(els[1].data) = Len(table)
                /\ \A r \in 1..Len(table) : Len(els[1].data[r]) = Len(table[r])
                /\ els[1].header <=> Len(table) > 1
                /\ els[1].header <=> els[1].headerFontName # "none"

\* a 2 x 3 table gave a 2 x 3 grid with the header styling, and a table of one
\* row before it a grid without
C9_Witness ==
    /\ pc = "build"
    /\ \E t \in DoneTables :
          /\ t > 0
          /\ Len(doc.tables[t + 1]) = 2
          /\ Len(doc.tables[t + 1][1]) = 3
          /\ Len(ElementsOf("tables", t)[1].data) = 2
          /\ Len(ElementsOf("tables", t)[1].data[2]) = 3
          /\ ElementsOf("tables", t)[1].header
          /\ ~ElementsOf("tables", 0)[1].header

----------------------------------------------------------------------------
(* C10: the elements of a mixed paragraph *)

\* the blocks of a mixed paragraph: one per non-blank run, in run order, the
\* list prefix before the text of the first only
MixedBlocksOf(i, els) ==
    LET p == doc.paragraphs[i + 1]
        rs == runs_with_text(p)
        prefix == IF p.style = StyleListBullet THEN <<9679, 32>> ELSE <<>>
    IN  /\ Len(els) >= Len(rs)
        /\ \A k \in 1..Len(rs) :
               /\ els[k].kind = "Paragraph"
               /\ els[k].src.run = k - 1
               /\ els[k].text =
                      Underlined((IF k = 1 THEN prefix ELSE <<>>) \o rs[k].text,
                                 Fmt(rs[k]))

NoSpacer(els) == \A k \in 1..Len(els) : els[k].kind # "Spacer"

\* C10 as stated: a mixed paragraph appends one styled block per non-blank run,
\* in run order, the list prefix on the first only, followed by one spacer; a
\* uniform paragraph appends no spacer.
C10_Original ==
    \A i \in DoneParas :
        LET p == doc.paragraphs[i + 1]
            els == ElementsOf("paragraphs", i)
            n == Len(runs_with_text(p))
        IN  Emitting(p) =>
                IF AllSameTriple(p) THEN NoSpacer(els)
                ELSE /\ MixedBlocksOf(i, els)
                     /\ Len(els) = n + 1
                     /\ els[n + 1].kind = "Spacer"

\* C10 as amended: a mixed paragraph appends one styled block per non-blank
\* run, in run order, the list prefix on the first only, followed by one spacer
\* unless the paragraph is a list item (its style name contains "List"), which
\* gets no spacer; a uniform paragraph appends no spacer.
C10_Amended ==
    \A i \in DoneParas :
        LET p == doc.paragraphs[i + 1]
            els == ElementsOf("paragraphs", i)
            n == Len(runs_with_text(p))
        IN  Emitting(p) =>
                IF AllSameTriple(p) THEN NoSpacer(els)
                ELSE /\ MixedBlocksOf(i, els)
                     /\ IF Contains(WordList, p.style)
                        THEN Len(els) = n
                        ELSE /\ Len(els) = n + 1
                             /\ els[n + 1].kind = "Spacer"
                             /\ els[n + 1].height = 6

\* a mixed bullet paragraph of three runs: three blocks, the bullet on the
\* first, no spacer
C10_Witness ==
    /\ pc = "tables"
    /\ \E i \in DoneParas :
          /\ doc.paragraphs[i + 1] =
                 Para(StyleListBullet, <<RunA, RunKaBold, RunAUnder>>, <<>>)
          /\ Len(ElementsOf("paragraphs", i)) = 3
          /\ ElementsOf("paragraphs", i)[1].text = <<9679, 32>> \o TextA
          /\ ElementsOf("paragraphs", i)[2].text = TextKa

----------------------------------------------------------------------------
(* C11: the numbers of numbered-list paragraphs *)

\* the paragraph gets a number prefix: its style name has "List" and "Number"
\* in it and no "Bullet"
Numbered(p) ==
    /\ Contains(WordList, p.style)
    /\ ~Contains(WordBullet, p.style)
    /\ Contains(WordNumber, p.style)

\* the text of an emitted paragraph of uniform formatting is n, ". " and the
\* text of the paragraph
NumberedAs(i, n) ==
    LET p == doc.paragraphs[i + 1]
        els == ElementsOf("paragraphs", i)
    IN  /\ Len(els) >= 1
        /\ els[1].kind = "Paragraph"
        /\ els[1].text =
               Underlined(Digits(n) \o <<46, 32>> \o ParaText(p),
                          Fmt(runs_with_text(p)[1]))

\* the number the story shows before the text of emitted paragraph i
NumberShown(i) ==
    CHOOSE n \in 1..(Len(doc.paragraphs) + 1) : NumberedAs(i, n)

EarlierSameStyle(i) ==
    {j \in 0..(i - 1) : doc.paragraphs[j + 1].style = doc.paragraphs[i + 1].style}

EarlierListNumber(i) ==
    {j \in 0..(i - 1) : Contains(StyleListNumber, doc.paragraphs[j + 1].style)}

\* C11 as stated: the number prefixed to an emitted paragraph with a
\* numbered-list style is one more than the number of earlier paragraphs of the
\* document that share the same numbered-list style.
C11_Original ==
    \A i \in DoneParas :
        LET p == doc.paragraphs[i + 1]
        IN  (Emitting(p) /\ Numbered(p) /\ AllSameTriple(p)) =>
                NumberedAs(i, Cardinality(EarlierSameStyle(i)) + 1)

\* C11 as amended: the number prefixed to an emitted paragraph with a
\* numbered-list style is one more than the number of earlier paragraphs of the
\* document, emitted or skipped, whose style name contains "List Number",
\* whatever their own numbered-list style: one flat counter for all of them.
\* So over the document the numbers of the paragraphs whose style name contains
\* "List Number" increase with each such paragraph and are never reset, and the
\* first is 1 when no such paragraph stands before it.
C11_Amended ==
    /\ \A i \in DoneParas :
           LET p == doc.paragraphs[i + 1]
           IN  (Emitting(p) /\ Numbered(p) /\ AllSameTriple(p)) =>
                   /\ NumberedAs(i, Cardinality(EarlierListNumber(i)) + 1)
                   /\ EarlierListNumber(i) = {} => NumberShown(i) = 1
    /\ \A i, j \in DoneParas :
           LET p == doc.paragraphs[i + 1]
               q == doc.paragraphs[j + 1]
           IN  (/\ i < j
                /\ Emitting(p) /\ Contains(StyleListNumber, p.style) /\ AllSameTriple(p)
                /\ Emitting(q) /\ Contains(StyleListNumber, q.style) /\ AllSameTriple(q))
                   => NumberShown(i) < NumberShown(j)

\* a "List Number" paragraph after a "List Number 2" paragraph is numbered 2
C11_Witness ==
    /\ pc = "tables"
    /\ Len(doc.paragraphs) = 2
    /\ doc.paragraphs[1] = Para(StyleListNumber2, <<RunA>>, <<>>)
    /\ doc.paragraphs[2] = Para(StyleListNumber, <<RunA>>, <<>>)
    /\ NumberedAs(0, 1)
    /\ NumberedAs(1, 2)
    /\ ElementsOf("paragraphs", 1)[1].text = <<50, 46, 32, 65>>

----------------------------------------------------------------------------
(* C12: the font names of the story are known to the renderer *)

\* the fonts the renderer has without any registration
BuiltinHelvetica ==
    {"Helvetica", "Helvetica-Bold", "Helvetica-Oblique", "Helvetica-BoldOblique"}

Renderable(name) == name \in BuiltinHelvetica \cup rl_fonts

\* the font names element e places in a paragraph style or a table style
FontNamesOf(e) ==
    IF e.kind = "Paragraph" THEN {e.fontName}
    ELSE IF e.kind = "Table" THEN {e.fontName} \cup ({e.headerFontName} \ {"none"})
    ELSE {}

StoryFontNames == UNION {FontNamesOf(story[j]) : j \in 1..Len(story)}

\* C12: after any sequence of conversions with any mix of font download and
\* registration successes and failures, every font name placed in a paragraph
\* style or a table style is a built-in Helvetica variant or a Gurmukhi font
\* that has been registered with the renderer: a FONTS_REGISTERED flag is true
\* only if the registration call for that font has completed without raising.
C12_FontsRegistered ==
    /\ \A key \in FontKeys : FONTS_REGISTERED[key] => FontName(key) \in rl_fonts
    /\ \A name \in StoryFontNames : Renderable(name)

\* the regular font is not registered, the bold one is, and the story has it
\* in a paragraph style and in a table's header style
C12_Witness ==
    /\ pc = "returned" /\ result = "bytes"
    /\ ~FONTS_REGISTERED.gurmukhi_regular
    /\ rl_fonts = {"NotoSansGurmukhi-Bold"}
    /\ \E j, k \in 1..Len(story) :
           /\ story[j].kind = "Paragraph"
           /\ story[j].fontName = "NotoSansGurmukhi-Bold"
           /\ story[k].kind = "Table"
           /\ story[k].fontName = "Helvetica"
           /\ story[k].headerFontName = "NotoSansGurmukhi-Bold"

====
